---- MODULE Spec2Model ----
(***************************************************************************)
(* DocuGen AI (Jha-2022/DocMindAI): the project / section content          *)
(* lifecycle.                                                              *)
(*                                                                         *)
(*   - the data store: the tables projects, sections, refinement_history   *)
(*     and feedback with their keys, constraints and row-level policies    *)
(*     (src/unnamed/part_001, the migration);                              *)
(*   - Configure (src/unnamed/part_000): the local title list and          *)
(*     handleSubmit, which creates a project and its sections;             *)
(*   - Editor (src/src/pages/Dashboard.tsx, lines 153-531): loadProject,   *)
(*     generateAllContent, refineSection, exportDocument;                  *)
(*   - the refine-content edge function (Dashboard.tsx, lines 533-607).    *)
(*                                                                         *)
(* Text (topic, titles) is a sequence of characters, so that trim() is     *)
(* computed and not assumed.  Section content is an opaque value or Null.  *)
(*                                                                         *)
(* Every awaited call is one step: the store executes the statement and    *)
(* the caller resumes with its answer.  A store statement is answered as   *)
(* the schema decides (keys, NOT NULL, foreign keys, policies); where the  *)
(* calling code examines the returned error, a failed call is one of the   *)
(* enumerated answers as well.                                             *)
(***************************************************************************)
EXTENDS Integers, Sequences, FiniteSets, TLC

VARIABLES
    projects,            \* table public.projects: id -> row
    sections,            \* table public.sections: id -> row
    refinement_history,  \* table public.refinement_history, in insertion order
    feedback,            \* table public.feedback, in insertion order
    ids,                 \* the keys gen_random_uuid() has handed out, per table
    cfg,                 \* the Configure component's state
    ed,                  \* the Editor components' state, one per open tab
    reqs,                \* the refine-content requests, in the order issued
    doc,                 \* the artifact of the last exportDocument, per tab
    toast                \* the notification the step just taken raised

storeVars == <<projects, sections, refinement_history, feedback, ids>>
editorVars == <<ed, reqs, doc>>
vars ==
    <<projects, sections, refinement_history, feedback, ids, cfg, ed, reqs, doc,
      toast>>

----------------------------------------------------------------------------
(* Bounds of the model *)

MaxProjects == 1
MaxSections == 2
MaxRefines == 2
MaxLoads == 2           \* loadProject calls one tab has in flight
MaxFeedback == 2        \* feedback calls
MaxExportSections == 3  \* sections of an exported project

(* Values *)

Users == {"u1", "u2"}
NoUser == "anon"
Null == "null"          \* a NULL column, a null content
NoSection == 0          \* no section key
DocumentTypes == {"docx", "pptx"}
Statuses == {"draft", "generating", "completed"}

\* What a user can type into the topic box and into a title box.
TopicInputs == {<<" ">>, <<" ", "t">>}
TitleInputs == {<<"a">>, <<" ", "b", " ">>}
\* What the AI gateway can answer with: bulk generation, refinement.
GenOutputs == {"g", "h"}
RefineOutputs == {"x", "y"}
\* What a user can type into a refinement prompt box.
PromptInputs == {<<"p">>, <<"q">>}
\* What the generate-outline call can answer with.
Outlines == {<<>>, << <<" ", "b", " ">>, <<"a">> >>}

----------------------------------------------------------------------------
(* String.prototype.trim *)

RECURSIVE TrimStart(_)
TrimStart(s) ==
    IF s # <<>> /\ Head(s) = " " THEN TrimStart(Tail(s)) ELSE s

RECURSIVE TrimEnd(_)
TrimEnd(s) ==
    IF s # <<>> /\ s[Len(s)] = " " THEN TrimEnd(SubSeq(s, 1, Len(s) - 1)) ELSE s

Trim(s) == TrimEnd(TrimStart(s))

\* a test that lets every text pass
BlankNever(s) == FALSE

\* !s.trim()
Blank(s) == Trim(s) = <<>>

\* array.filter((_, i) => i !== index), index zero-based
RemoveAt(seq, index) ==
    [k \in 1..(Len(seq) - 1) |-> IF k <= index THEN seq[k] ELSE seq[k + 1]]

----------------------------------------------------------------------------
(* The data store *)

\* CREATE TABLE public.projects
ProjectRow(uid, documentType, topic, status) ==
    [user_id |-> uid, document_type |-> documentType, topic |-> topic,
     status |-> status]

\* CREATE TABLE public.sections: content defaults to NULL, is_generated to false
SectionRow(pid, index, title) ==
    [project_id |-> pid, order_index |-> index, title |-> title,
     content |-> Null, is_generated |-> FALSE]

\* CREATE TABLE public.refinement_history
HistoryRow(sid, prompt, previous, new) ==
    [section_id |-> sid, prompt |-> prompt, previous_content |-> previous,
     new_content |-> new]

\* The policies on projects: auth.uid() = user_id
OwnsProject(uid, pid) ==
    pid \in DOMAIN projects /\ projects[pid].user_id = uid

\* The policies on sections: EXISTS (a project of auth.uid() with
\* projects.id = sections.project_id)
OwnsSection(uid, sid) ==
    sid \in DOMAIN sections /\ OwnsProject(uid, sections[sid].project_id)

\* gen_random_uuid(): a key never handed out before
FreshIds(table, n) == (ids[table] + 1)..(ids[table] + n)

\* f extended with the rows g (disjoint domains)
Extend(f, g) ==
    [k \in DOMAIN f \cup DOMAIN g |-> IF k \in DOMAIN g THEN g[k] ELSE f[k]]

\* the rows of a project, as a set of section keys
SectionsOf(pid) == {s \in DOMAIN sections : sections[s].project_id = pid}

----------------------------------------------------------------------------
(* Configure *)

\* handleSubmit is not running: it has closed over nothing
NoSub == [user |-> NoUser, documentType |-> "docx", topic |-> <<>>,
          sections |-> <<>>]

\* useState initial values (part_000 lines 15-19); user comes from useAuth()
CfgInit(uid) ==
    [user |-> uid, documentType |-> "docx", topic |-> <<>>,
     sections |-> << <<>> >>, loading |-> FALSE, generating |-> FALSE,
     pc |-> "idle",         \* where handleSubmit stands
     sub |-> NoSub,         \* the state handleSubmit closed over
     project |-> 0]         \* handleSubmit's local `project`: its id, 0 if unset

Mounted == cfg.pc # "navigated"

setDocumentType(v) ==
    /\ Mounted
    /\ cfg' = [cfg EXCEPT !.documentType = v]
    /\ toast' = "none"
    /\ UNCHANGED <<storeVars, editorVars>>

setTopic(v) ==
    /\ Mounted
    /\ cfg' = [cfg EXCEPT !.topic = v]
    /\ toast' = "none"
    /\ UNCHANGED <<storeVars, editorVars>>

addSection ==
    /\ Mounted
    /\ Len(cfg.sections) < MaxSections
    /\ cfg' = [cfg EXCEPT !.sections = Append(@, <<>>)]
    /\ toast' = "none"
    /\ UNCHANGED <<storeVars, editorVars>>

\* the Trash button is rendered only when sections.length > 1, and
\* removeSection tests it again
removeSection(index) ==
    /\ Mounted
    /\ index \in 0..(Len(cfg.sections) - 1)
    /\ Len(cfg.sections) > 1
    /\ cfg' = [cfg EXCEPT !.sections = RemoveAt(@, index)]
    /\ toast' = "none"
    /\ UNCHANGED <<storeVars, editorVars>>

updateSection(index, value) ==
    /\ Mounted
    /\ index \in 0..(Len(cfg.sections) - 1)
    /\ cfg' = [cfg EXCEPT !.sections[index + 1] = value]
    /\ toast' = "none"
    /\ UNCHANGED <<storeVars, editorVars>>

\* generateOutline, up to the invoke
generateOutline ==
    /\ Mounted
    /\ ~cfg.generating
    /\ IF Blank(cfg.topic)
          THEN cfg' = cfg /\ toast' = "Please enter a topic first"
          ELSE cfg' = [cfg EXCEPT !.generating = TRUE] /\ toast' = "none"
    /\ UNCHANGED <<storeVars, editorVars>>

\* a setter that keeps the titles and puts the outline behind them
SetSectionsAppending(titles, outline) == titles \o outline

\* setSections(data.outline): the title list titles is replaced
SetSections(titles, outline) == outline

\* generateOutline, from the answer of the invoke on
generateOutlineReturn(error, outline) ==
    /\ Mounted
    /\ cfg.generating
    /\ IF error
          THEN /\ cfg' = [cfg EXCEPT !.generating = FALSE]
               /\ toast' = "Failed to generate outline"
          ELSE /\ cfg' = [cfg EXCEPT !.sections = SetSections(@, outline),
                                     !.generating = FALSE]
               /\ toast' = "Outline generated successfully!"
    /\ UNCHANGED <<storeVars, editorVars>>

\* rows that all carry order position 0
SectionsDataUnnumbered(pid, titles) ==
    [k \in FreshIds("sections", Len(titles)) |->
        SectionRow(pid, 0, Trim(titles[k - ids.sections]))]

\* sections.map((title, index) => ({project_id, title: title.trim(),
\* order_index: index})), as rows keyed by fresh ids
SectionsDataOffByOne(pid, titles) ==
    [k \in FreshIds("sections", Len(titles)) |->
        SectionRow(pid, k - ids.sections, Trim(titles[k - ids.sections]))]

SectionsData(pid, titles) ==
    [k \in FreshIds("sections", Len(titles)) |->
        SectionRow(pid, k - ids.sections - 1, Trim(titles[k - ids.sections]))]

\* handleSubmit, up to the insert into projects
handleSubmit ==
    /\ Mounted
    /\ ~cfg.loading
    /\ IF Blank(cfg.topic) \/ \E k \in 1..Len(cfg.sections) : Blank(cfg.sections[k])
          THEN cfg' = cfg /\ toast' = "Please fill in all fields"
          ELSE IF cfg.user = NoUser
          THEN /\ cfg' = cfg
               /\ toast' = "You must be logged in to create a project"
          ELSE /\ cfg' = [cfg EXCEPT
                         !.loading = TRUE, !.pc = "insertProject", !.project = 0,
                         !.sub = [user |-> cfg.user,
                                  documentType |-> cfg.documentType,
                                  topic |-> cfg.topic,
                                  sections |-> cfg.sections]]
               /\ toast' = "none"
    /\ UNCHANGED <<storeVars, editorVars>>

\* handleSubmit: the insert into projects answers
insertProjectReturn(projectError) ==
    /\ cfg.pc = "insertProject"
    /\ IF projectError
          THEN /\ cfg' = [cfg EXCEPT !.loading = FALSE, !.pc = "idle",
                                     !.sub = NoSub, !.project = 0]
               /\ toast' = "Failed to create project"
               /\ UNCHANGED storeVars
          ELSE /\ ids.projects < MaxProjects
               /\ LET pid == ids.projects + 1 IN
                  /\ projects' = Extend(projects, (pid :> ProjectRow(
                        cfg.sub.user, cfg.sub.documentType,
                        Trim(cfg.sub.topic), "draft")))
                  /\ ids' = [ids EXCEPT !.projects = pid]
                  /\ cfg' = [cfg EXCEPT !.pc = "insertSections", !.project = pid]
                  /\ toast' = "none"
               /\ UNCHANGED <<sections, refinement_history, feedback>>
    /\ UNCHANGED editorVars

\* handleSubmit: the insert into sections answers
insertSectionsReturn(sectionsError) ==
    /\ cfg.pc = "insertSections"
    /\ IF sectionsError \/ ~OwnsProject(cfg.sub.user, cfg.project)
          THEN /\ cfg' = [cfg EXCEPT !.loading = FALSE, !.pc = "idle",
                                     !.sub = NoSub, !.project = 0]
               /\ toast' = "Failed to create project"
               /\ UNCHANGED storeVars
          ELSE /\ sections' = Extend(sections,
                                     SectionsData(cfg.project, cfg.sub.sections))
               /\ ids' = [ids EXCEPT !.sections = @ + Len(cfg.sub.sections)]
               \* navigate(`/editor/${project.id}`) unmounts the component
               /\ cfg' = [CfgInit(cfg.user) EXCEPT !.pc = "navigated",
                                                   !.project = cfg.project]
               /\ toast' = "Project created successfully!"
               /\ UNCHANGED <<projects, refinement_history, feedback>>
    /\ UNCHANGED editorVars

----------------------------------------------------------------------------
(* The Configure page over an empty store *)

StoreEmpty ==
    /\ projects = <<>>
    /\ sections = <<>>
    /\ refinement_history = <<>>
    /\ feedback = <<>>
    /\ ids = [projects |-> 0, sections |-> 0]

InitConfigure ==
    /\ StoreEmpty
    /\ \E uid \in Users \cup {NoUser} : cfg = CfgInit(uid)
    /\ ed = <<>>
    /\ reqs = <<>>
    /\ doc = <<>>
    /\ toast = "none"

NextConfigure ==
    \/ \E v \in DocumentTypes : setDocumentType(v)
    \/ \E v \in TopicInputs : setTopic(v)
    \/ addSection
    \/ \E i \in 0..(MaxSections - 1) : removeSection(i)
    \/ \E i \in 0..(MaxSections - 1), v \in TitleInputs : updateSection(i, v)
    \/ generateOutline
    \/ \E error \in BOOLEAN, outline \in Outlines :
          generateOutlineReturn(error, outline)
    \/ handleSubmit
    \/ \E projectError \in BOOLEAN : insertProjectReturn(projectError)
    \/ \E sectionsError \in BOOLEAN : insertSectionsReturn(sectionsError)

SpecConfigure == InitConfigure /\ [][NextConfigure]_vars

----------------------------------------------------------------------------
(* Editor *)

Editors == {"e1", "e2"}

\* useState<Project | null>(null)
NoProject == [id |-> 0, document_type |-> "docx", topic |-> <<>>]

\* useState initial values (Dashboard.tsx lines 183-189); id comes from the
\* route, the session user from the supabase client
EdInit(uid, pid) ==
    [user |-> uid, id |-> pid, project |-> NoProject, sections |-> <<>>,
     loading |-> TRUE, generating |-> FALSE, refining |-> NoSection,
     loadsProject |-> 1,    \* loadProject calls awaiting the projects select
     loadsSections |-> 0,   \* loadProject calls awaiting the sections select
     gen |-> "idle",        \* where generateAllContent stands
     genSections |-> <<>>,  \* the section ids its request lists
     \* useState<Record<string, string>>({}): every read of it takes a
     \* missing key for '', so it is kept total with '' for a missing key
     refinementPrompts |-> [s \in 1..MaxSections |-> <<>>],
     comments |-> [s \in 1..MaxSections |-> <<>>]]

\* select('*') on projects, as the Editor keeps it (interface Project; the
\* Editor never reads status)
ProjectData(pid) ==
    [id |-> pid, document_type |-> projects[pid].document_type,
     topic |-> projects[pid].topic]

\* a row of sections as the Editor keeps it (interface Section)
SectionData(sid) ==
    [id |-> sid, title |-> sections[sid].title,
     content |-> sections[sid].content,
     order_index |-> sections[sid].order_index,
     is_generated |-> sections[sid].is_generated]

\* the rows S in key order
RECURSIVE OrderByKey(_)
OrderByKey(S) ==
    IF S = {} THEN <<>>
    ELSE LET first == CHOOSE s \in S : \A t \in S : s <= t
         IN  <<SectionData(first)>> \o OrderByKey(S \ {first})

\* .order('order_index'): the rows S in increasing order position
RECURSIVE OrderByIndex(_)
OrderByIndex(S) ==
    IF S = {} THEN <<>>
    ELSE LET first == CHOOSE s \in S :
                 \A t \in S : sections[s].order_index <= sections[t].order_index
         IN  <<SectionData(first)>> \o OrderByIndex(S \ {first})

\* from('sections').select('*').eq('project_id', id).order('order_index')
\* under the select policy on sections
SelectSections(uid, pid) ==
    OrderByIndex({s \in SectionsOf(pid) : OwnsSection(uid, s)})

\* loadProject: the projects select answers.  .single() is an error when the
\* policy shows no row.
loadProjectSelect(e, projectError) ==
    /\ ed[e].loadsProject > 0
    /\ IF projectError \/ ~OwnsProject(ed[e].user, ed[e].id)
          THEN /\ ed' = [ed EXCEPT ![e].loadsProject = @ - 1,
                                   ![e].loading = FALSE]
               /\ toast' = "Failed to load project"
          ELSE /\ ed' = [ed EXCEPT ![e].loadsProject = @ - 1,
                                   ![e].loadsSections = @ + 1,
                                   ![e].project = ProjectData(ed[e].id)]
               /\ toast' = "none"
    /\ UNCHANGED <<storeVars, cfg, reqs, doc>>

\* loadProject: the sections select answers
loadSectionsSelect(e, sectionsError) ==
    /\ ed[e].loadsSections > 0
    /\ IF sectionsError
          THEN /\ ed' = [ed EXCEPT ![e].loadsSections = @ - 1,
                                   ![e].loading = FALSE]
               /\ toast' = "Failed to load project"
          ELSE /\ ed' = [ed EXCEPT ![e].loadsSections = @ - 1,
                                   ![e].loading = FALSE,
                                   ![e].sections =
                                       SelectSections(ed[e].user, ed[e].id)]
               /\ toast' = "none"
    /\ UNCHANGED <<storeVars, cfg, reqs, doc>>

\* an update that writes only over the status 'draft'
UpdateStatusFromDraft(uid, pid, status) ==
    IF OwnsProject(uid, pid) /\ projects[pid].status = "draft"
        THEN [projects EXCEPT ![pid].status = status]
        ELSE projects

\* from('projects').update({status}).eq('id', pid) under the update policy
UpdateStatus(uid, pid, status) ==
    IF OwnsProject(uid, pid)
        THEN [projects EXCEPT ![pid].status = status]
        ELSE projects

\* the Generate Content button: rendered once loading is over and while no
\* section is generated, disabled while generating
GenerateOffered(e) ==
    /\ ~ed[e].loading
    /\ \A k \in 1..Len(ed[e].sections) : ~ed[e].sections[k].is_generated
    /\ ~ed[e].generating

\* generateAllContent, up to the invoke: the update to 'generating'
generateAllContent(e) ==
    /\ GenerateOffered(e)
    /\ ed[e].project # NoProject
    /\ projects' = UpdateStatus(ed[e].user, ed[e].id, "generating")
    /\ ed' = [ed EXCEPT ![e].generating = TRUE, ![e].gen = "invoke",
                        ![e].genSections =
                            [k \in 1..Len(ed[e].sections) |-> ed[e].sections[k].id]]
    /\ toast' = "none"
    /\ UNCHANGED <<sections, refinement_history, feedback, ids, cfg, reqs, doc>>

\* a function that also moves every listed section one position up
GenerateContentRenumbering(listed, content) ==
    [s \in DOMAIN sections |->
        IF s \in listed
            THEN [sections[s] EXCEPT !.content = content[s], !.is_generated = TRUE,
                                     !.order_index = @ + 1]
            ELSE sections[s]]

\* The generate-content function on success: every listed section acquires
\* generated content and its generated flag is set.
GenerateContent(listed, content) ==
    [s \in DOMAIN sections |->
        IF s \in listed
            THEN [sections[s] EXCEPT !.content = content[s], !.is_generated = TRUE]
            ELSE sections[s]]

\* if (error) throw error
InvokeThrowsNever(error) == FALSE

InvokeThrows(error) == error

\* generateAllContent: the invoke of generate-content answers
generateContentReturn(e, error, content) ==
    /\ ed[e].gen = "invoke"
    /\ LET listed == {ed[e].genSections[k] : k \in 1..Len(ed[e].genSections)} IN
       sections' = IF error THEN sections ELSE GenerateContent(listed, content)
    /\ ed' = [ed EXCEPT ![e].gen = IF InvokeThrows(error) THEN "catch" ELSE "ok"]
    /\ toast' = "none"
    /\ UNCHANGED <<projects, refinement_history, feedback, ids, cfg, reqs, doc>>

\* a further loadProject() call fits the bound
CanLoad(e) == ed[e].loadsProject + ed[e].loadsSections < MaxLoads

\* generateAllContent after a successful invoke: the update to 'completed',
\* loadProject() (not awaited), the toast, finally
generateCompleted(e) ==
    /\ ed[e].gen = "ok"
    /\ CanLoad(e)
    /\ projects' = UpdateStatus(ed[e].user, ed[e].id, "completed")
    /\ ed' = [ed EXCEPT ![e].gen = "idle", ![e].genSections = <<>>,
                        ![e].loadsProject = @ + 1, ![e].generating = FALSE]
    /\ toast' = "Content generated successfully!"
    /\ UNCHANGED <<sections, refinement_history, feedback, ids, cfg, reqs, doc>>

\* the status the catch block writes
RollbackStatusNone == "generating"

RollbackStatus == "draft"

\* generateAllContent, the catch block: the toast, the update to 'draft',
\* finally
generateFailed(e) ==
    /\ ed[e].gen = "catch"
    /\ projects' = UpdateStatus(ed[e].user, ed[e].id, RollbackStatus)
    /\ ed' = [ed EXCEPT ![e].gen = "idle", ![e].genSections = <<>>,
                        ![e].generating = FALSE]
    /\ toast' = "Failed to generate content"
    /\ UNCHANGED <<sections, refinement_history, feedback, ids, cfg, reqs, doc>>

----------------------------------------------------------------------------
(* Refinement: Editor.refineSection and the refine-content function *)

\* a test every content passes
TruthyAlways(content) == TRUE

\* section.content && ...: null and '' are falsy
Truthy(content) == content # Null /\ content # ""

\* sections.find(s => s.id === sectionId), as an index; 0 when there is none
FindSection(e, sid) ==
    IF \E k \in 1..Len(ed[e].sections) : ed[e].sections[k].id = sid
        THEN CHOOSE k \in 1..Len(ed[e].sections) : ed[e].sections[k].id = sid
        ELSE 0

\* the refinement controls of a section are rendered
RefineControls(e, sid) ==
    /\ ~ed[e].loading
    /\ FindSection(e, sid) # 0
    /\ Truthy(ed[e].sections[FindSection(e, sid)].content)

\* onChange of the refinement prompt box
setRefinementPrompts(e, sid, value) ==
    /\ RefineControls(e, sid)
    /\ ed' = [ed EXCEPT ![e].refinementPrompts[sid] = value]
    /\ toast' = "none"
    /\ UNCHANGED <<storeVars, cfg, reqs, doc>>

\* a request to refine-content: the caller's session, the tab that awaits the
\* answer ("none" when the endpoint is called directly), the body, and how
\* far the function has come.  title only enters the AI prompt and is left out.
Request(uid, e, sid, prompt, currentContent, prompts) ==
    [caller |-> uid, editor |-> e, sectionId |-> sid, prompt |-> prompt,
     currentContent |-> currentContent, stage |-> "sent", refined |-> Null,
     inserted |-> FALSE, updated |-> FALSE, prompts |-> prompts,
     delivered |-> e = "none",
     \* bookkeeping for the statements below, read by no action: every
     \* earlier request for this section had been answered when this one
     \* was sent
     sequential |-> \A k \in 1..Len(reqs) :
                       reqs[k].sectionId = sid => reqs[k].stage \in {"success", "error"}]

\* the function has answered
Answered(r) == r.stage \in {"success", "error"}

\* refineSection, up to the invoke.  The Refine button is disabled while
\* refining === section.id.
refineSection(e, sid) ==
    /\ RefineControls(e, sid)
    /\ ed[e].refining # sid
    /\ IF Blank(ed[e].refinementPrompts[sid])
          THEN /\ toast' = "Please enter a refinement prompt"
               /\ UNCHANGED <<ed, reqs>>
          ELSE /\ Len(reqs) < MaxRefines
               /\ ed' = [ed EXCEPT ![e].refining = sid]
               /\ reqs' = Append(reqs, Request(ed[e].user, e, sid,
                             ed[e].refinementPrompts[sid],
                             ed[e].sections[FindSection(e, sid)].content,
                             ed[e].refinementPrompts))
               /\ toast' = "none"
    /\ UNCHANGED <<storeVars, cfg, doc>>

\* POST /functions/v1/refine-content by a signed-in user, with a body of
\* the caller's choosing
directRefine(uid, sid, prompt, currentContent) ==
    /\ Len(reqs) < MaxRefines
    /\ reqs' = Append(reqs, Request(uid, "none", sid, prompt, currentContent,
                                    <<>>))
    /\ toast' = "none"
    /\ UNCHANGED <<storeVars, cfg, ed, doc>>

\* an insert that puts the row before the others
InsertHistoryFirst(row) ==
    IF row.section_id \in DOMAIN sections
        THEN <<row>> \o refinement_history
        ELSE refinement_history

\* the insert into refinement_history by the service role: the foreign key
\* on section_id decides
InsertHistory(row) ==
    IF row.section_id \in DOMAIN sections
        THEN Append(refinement_history, row)
        ELSE refinement_history

\* the row with previous and new content exchanged
AuditRowExchanged(r, refinedContent) ==
    HistoryRow(r.sectionId, r.prompt, refinedContent, r.currentContent)

\* the row the function writes
AuditRow(r, refinedContent) ==
    HistoryRow(r.sectionId, r.prompt, r.currentContent, refinedContent)

\* the audit log when the function throws with the row at hand
WritesBeforeThrowRow(row) == InsertHistory(row)

\* the audit log when the function throws: every throw (no key, response not
\* ok, malformed answer) precedes the insert into refinement_history
WritesBeforeThrow(row) == refinement_history

\* the function, up to the insert into refinement_history: the AI gateway
\* answers (ok with a content, or the call fails: no key, not ok, malformed)
refineInsert(i, ok, refinedContent) ==
    /\ i \in 1..Len(reqs)
    /\ reqs[i].stage = "sent"
    /\ IF ok
          THEN /\ refinement_history' = InsertHistory(AuditRow(reqs[i], refinedContent))
               /\ reqs' = [reqs EXCEPT ![i].stage = "inserted",
                                       ![i].refined = refinedContent,
                                       ![i].inserted =
                                           reqs[i].sectionId \in DOMAIN sections]
          ELSE /\ reqs' = [reqs EXCEPT ![i].stage = "error"]
               /\ refinement_history' =
                     WritesBeforeThrow(AuditRow(reqs[i], refinedContent))
    /\ toast' = "none"
    /\ UNCHANGED <<projects, sections, feedback, ids, cfg, ed, doc>>

\* an update that also sets the generated flag
UpdateContentAndFlag(sid, content) ==
    IF sid \in DOMAIN sections
        THEN [sections EXCEPT ![sid].content = content, ![sid].is_generated = TRUE]
        ELSE sections

\* from('sections').update({content}).eq('id', sectionId) by the service role
UpdateContent(sid, content) ==
    IF sid \in DOMAIN sections
        THEN [sections EXCEPT ![sid].content = content]
        ELSE sections

\* the function, from the update of sections to the 200 response
refineUpdate(i) ==
    /\ i \in 1..Len(reqs)
    /\ reqs[i].stage = "inserted"
    /\ sections' = UpdateContent(reqs[i].sectionId, reqs[i].refined)
    /\ reqs' = [reqs EXCEPT ![i].stage = "success",
                            ![i].updated = reqs[i].sectionId \in DOMAIN sections]
    /\ toast' = "none"
    /\ UNCHANGED <<projects, refinement_history, feedback, ids, cfg, ed, doc>>

\* refineSection, from the answer of the invoke on
refineSectionReturn(i) ==
    /\ i \in 1..Len(reqs)
    /\ ~reqs[i].delivered
    /\ LET e == reqs[i].editor IN
       \/ /\ reqs[i].stage = "success"
          /\ CanLoad(e)
          /\ ed' = [ed EXCEPT
                      ![e].loadsProject = @ + 1,
                      ![e].refinementPrompts =
                          [reqs[i].prompts EXCEPT ![reqs[i].sectionId] = <<>>],
                      ![e].refining = NoSection]
          /\ toast' = "Section refined successfully!"
       \/ /\ reqs[i].stage = "error"
          /\ ed' = [ed EXCEPT ![e].refining = NoSection]
          /\ toast' = "Failed to refine section"
    /\ reqs' = [reqs EXCEPT ![i].delivered = TRUE, ![i].prompts = <<>>]
    /\ UNCHANGED <<storeVars, cfg, doc>>

----------------------------------------------------------------------------
(* Feedback: Editor.handleFeedback and Editor.saveComment *)

\* a NULL text column (comment); a stored text is a sequence of characters
NoText == <<Null>>

\* What a user can type into a comment box.
CommentInputs == {<<" ">>, <<" ", "c">>}

\* CREATE TABLE public.feedback: a column the statement does not name is NULL
FeedbackRow(sid, isLiked, comment) ==
    [section_id |-> sid, is_liked |-> isLiked, comment |-> comment]

\* from('feedback').upsert(values), with no onConflict option: the conflict
\* target is the primary key.  values names no id, the row gets a fresh one,
\* nothing conflicts and the statement inserts, when the insert policy (the
\* section is the caller's) and the foreign key on section_id allow it.
UpsertFeedback(uid, row) ==
    IF OwnsSection(uid, row.section_id)
        THEN Append(feedback, row)
        ELSE feedback

\* the like / dislike buttons and the comment box of a section are rendered
FeedbackControls(e, sid) ==
    /\ ~ed[e].loading
    /\ FindSection(e, sid) # 0
    /\ Truthy(ed[e].sections[FindSection(e, sid)].content)

\* handleFeedback: the error of the upsert is not examined
handleFeedback(e, sid, isLiked) ==
    /\ FeedbackControls(e, sid)
    /\ Len(feedback) < MaxFeedback
    /\ feedback' = UpsertFeedback(ed[e].user,
                                  FeedbackRow(sid, isLiked, NoText))
    /\ toast' = "Feedback recorded"
    /\ UNCHANGED <<projects, sections, refinement_history, ids, cfg, ed, reqs,
                   doc>>

\* onChange of the comment box
setComments(e, sid, value) ==
    /\ FeedbackControls(e, sid)
    /\ ed' = [ed EXCEPT ![e].comments[sid] = value]
    /\ toast' = "none"
    /\ UNCHANGED <<storeVars, cfg, reqs, doc>>

\* saveComment: a blank comment returns at once; the comment box keeps its
\* text
saveComment(e, sid) ==
    /\ FeedbackControls(e, sid)
    /\ IF Blank(ed[e].comments[sid])
          THEN /\ toast' = "none"
               /\ UNCHANGED feedback
          ELSE /\ Len(feedback) < MaxFeedback
               /\ feedback' = UpsertFeedback(ed[e].user,
                                  FeedbackRow(sid, Null, Trim(ed[e].comments[sid])))
               /\ toast' = "Comment saved"
    /\ UNCHANGED <<projects, sections, refinement_history, ids, cfg, ed, reqs,
                   doc>>

\* no artifact exported yet
NoDoc == [kind |-> "none", children |-> <<>>, slides |-> <<>>]

----------------------------------------------------------------------------
(* Deleting rows through the table API: the delete policies and the
   ON DELETE CASCADE foreign keys of the migration *)

\* sections without the rows S
SectionsWithout(S) == [s \in DOMAIN sections \ S |-> sections[s]]

\* an audit log that keeps the rows of deleted sections
HistoryKept(S) == refinement_history

\* refinement_history.section_id REFERENCES sections(id) ON DELETE CASCADE
HistoryWithout(S) ==
    LET Stays(row) == row.section_id \notin S IN
    SelectSeq(refinement_history, Stays)

\* feedback.section_id REFERENCES sections(id) ON DELETE CASCADE
FeedbackWithout(S) ==
    LET Stays(row) == row.section_id \notin S IN SelectSeq(feedback, Stays)

\* from('sections').delete().eq('id', sid): the delete policy shows the row
\* to the owner of its project only
deleteSection(uid, sid) ==
    /\ OwnsSection(uid, sid)
    /\ sections' = SectionsWithout({sid})
    /\ refinement_history' = HistoryWithout({sid})
    /\ feedback' = FeedbackWithout({sid})
    /\ toast' = "none"
    /\ UNCHANGED <<projects, ids, cfg, ed, reqs, doc>>

\* from('projects').delete().eq('id', pid): the delete policy shows the row
\* to its owner only; sections.project_id ... ON DELETE CASCADE
deleteProject(uid, pid) ==
    /\ OwnsProject(uid, pid)
    /\ projects' = [p \in DOMAIN projects \ {pid} |-> projects[p]]
    /\ sections' = SectionsWithout(SectionsOf(pid))
    /\ refinement_history' = HistoryWithout(SectionsOf(pid))
    /\ feedback' = FeedbackWithout(SectionsOf(pid))
    /\ toast' = "none"
    /\ UNCHANGED <<ids, cfg, ed, reqs, doc>>

\* the Editor mounts on the route handleSubmit navigated to
mountEditor(e) ==
    /\ cfg.pc = "navigated"
    /\ e \notin DOMAIN ed
    /\ ed' = Extend(ed, (e :> EdInit(cfg.user, cfg.project)))
    /\ doc' = Extend(doc, (e :> NoDoc))
    /\ toast' = "none"
    /\ UNCHANGED <<storeVars, cfg, reqs>>

----------------------------------------------------------------------------
(* Editor.exportDocument *)

\* new Paragraph({text, heading})
HeadingParagraph(text, heading) ==
    [heading |-> heading, text |-> text, run |-> ""]

\* section.content || ''
ContentOrEmpty(content) == IF Truthy(content) THEN content ELSE ""

\* new Paragraph({children: [new TextRun(section.content || '')]})
BodyParagraph(content) ==
    [heading |-> "NONE", text |-> <<>>, run |-> ContentOrEmpty(content)]

\* sections.flatMap(section => [heading paragraph, body paragraph])
RECURSIVE FlatMapParagraphs(_)
FlatMapParagraphs(secs) ==
    IF secs = <<>> THEN <<>>
    ELSE <<HeadingParagraph(Head(secs).title, "HEADING_2"),
           BodyParagraph(Head(secs).content)>> \o FlatMapParagraphs(Tail(secs))

\* the docx branch: new Document({sections: [{children: [...]}]})
ExportDocx(project, secs) ==
    [kind |-> "docx",
     children |-> <<HeadingParagraph(project.topic, "HEADING_1")>>
                      \o FlatMapParagraphs(secs),
     slides |-> <<>>]

\* slide.addText(text, {fontSize, ...}): a title (or topic) box, a body box
TitleBox(text, fontSize) == [text |-> text, run |-> "", fontSize |-> fontSize]
BodyBox(content, fontSize) ==
    [text |-> <<>>, run |-> ContentOrEmpty(content), fontSize |-> fontSize]

\* the pptx branch: the title slide, then sections.forEach(one slide each)
ExportPptx(project, secs) ==
    [kind |-> "pptx",
     children |-> <<>>,
     slides |-> << <<TitleBox(project.topic, 44)>> >> \o
                [k \in 1..Len(secs) |->
                    <<TitleBox(secs[k].title, 32), BodyBox(secs[k].content, 16)>>]]

\* the Export button: rendered once loading is over and when some section
\* has content
ExportOffered(e) ==
    /\ ~ed[e].loading
    /\ \E k \in 1..Len(ed[e].sections) : Truthy(ed[e].sections[k].content)

\* an export that ends, as the other handlers do, with loadProject()
exportDocumentReloading(e, throws) ==
    /\ ExportOffered(e)
    /\ ed[e].project # NoProject
    /\ CanLoad(e)
    /\ toast' = IF throws THEN "Failed to export document"
                         ELSE "Document exported successfully!"
    /\ ed' = [ed EXCEPT ![e].loadsProject = @ + 1]
    /\ UNCHANGED <<storeVars, cfg, reqs, doc>>

\* exportDocument; the packing or the download may throw
exportDocument(e, throws) ==
    /\ ExportOffered(e)
    /\ ed[e].project # NoProject
    /\ IF throws
          THEN /\ toast' = "Failed to export document"
               /\ UNCHANGED doc
          ELSE /\ doc' = [doc EXCEPT ![e] =
                            IF ed[e].project.document_type = "docx"
                                THEN ExportDocx(ed[e].project, ed[e].sections)
                                ELSE ExportPptx(ed[e].project, ed[e].sections)]
               /\ toast' = "Document exported successfully!"
    /\ UNCHANGED <<storeVars, cfg, ed, reqs>>

----------------------------------------------------------------------------
(* The Editor over a project as handleSubmit leaves it *)

\* the titles of the project's sections, trimmed and not blank
EditorTitles == << <<"a">>, <<"b">> >>

InitEditor ==
    /\ projects = (1 :> ProjectRow("u1", "docx", <<"t">>, "draft"))
    /\ sections = [s \in 1..MaxSections |->
                      SectionRow(1, s - 1, EditorTitles[((s - 1) % 2) + 1])]
    /\ refinement_history = <<>>
    /\ feedback = <<>>
    /\ ids = [projects |-> 1, sections |-> MaxSections]
    /\ cfg = CfgInit("u1")
    /\ \E uid \in Users : ed = [e \in Editors |->
                                  EdInit(IF e = "e1" THEN "u1" ELSE uid, 1)]
    /\ reqs = <<>>
    /\ doc = [e \in Editors |-> NoDoc]
    /\ toast = "none"

NextEditor ==
    \/ \E e \in Editors, projectError \in BOOLEAN :
          loadProjectSelect(e, projectError)
    \/ \E e \in Editors, sectionsError \in BOOLEAN :
          loadSectionsSelect(e, sectionsError)
    \/ \E e \in Editors : generateAllContent(e)
    \/ \E e \in Editors, error \in BOOLEAN, c \in GenOutputs :
          generateContentReturn(e, error, [s \in DOMAIN sections |-> c])
    \/ \E e \in Editors : generateCompleted(e)
    \/ \E e \in Editors : generateFailed(e)

Spec == InitEditor /\ [][NextEditor]_vars

----------------------------------------------------------------------------
(* Refinement over a project whose content has been generated *)

SectionKeys == 1..(MaxSections + 1)   \* the last one names no section

InitRefine ==
    /\ projects = (1 :> ProjectRow("u1", "docx", <<"t">>, "completed"))
    /\ sections = [s \in 1..MaxSections |->
                      [SectionRow(1, s - 1, EditorTitles[((s - 1) % 2) + 1])
                          EXCEPT !.content = "g", !.is_generated = TRUE]]
    /\ refinement_history = <<>>
    /\ feedback = <<>>
    /\ ids = [projects |-> 1, sections |-> MaxSections]
    /\ cfg = CfgInit("u1")
    /\ ed = [e \in {"e1"} |-> EdInit("u1", 1)]
    /\ reqs = <<>>
    /\ doc = [e \in {"e1"} |-> NoDoc]
    /\ toast = "none"

NextRefine ==
    \/ \E e \in DOMAIN ed, projectError \in BOOLEAN :
          loadProjectSelect(e, projectError)
    \/ \E e \in DOMAIN ed, sectionsError \in BOOLEAN :
          loadSectionsSelect(e, sectionsError)
    \/ \E e \in DOMAIN ed, sid \in 1..MaxSections, value \in PromptInputs :
          setRefinementPrompts(e, sid, value)
    \/ \E e \in DOMAIN ed, sid \in 1..MaxSections : refineSection(e, sid)
    \/ \E sid \in SectionKeys : directRefine("u2", sid, <<"d">>, Null)
    \/ \E i \in 1..MaxRefines, ok \in BOOLEAN, refinedContent \in RefineOutputs :
          refineInsert(i, ok, refinedContent)
    \/ \E i \in 1..MaxRefines : refineUpdate(i)
    \/ \E i \in 1..MaxRefines : refineSectionReturn(i)

SpecRefine == InitRefine /\ [][NextRefine]_vars

----------------------------------------------------------------------------
(* Feedback over a project whose content has been generated *)

NextFeedback ==
    \/ \E e \in DOMAIN ed, projectError \in BOOLEAN :
          loadProjectSelect(e, projectError)
    \/ \E e \in DOMAIN ed, sectionsError \in BOOLEAN :
          loadSectionsSelect(e, sectionsError)
    \/ \E e \in DOMAIN ed, sid \in 1..MaxSections, isLiked \in {"true", "false"} :
          handleFeedback(e, sid, isLiked)
    \/ \E e \in DOMAIN ed, sid \in 1..MaxSections, value \in CommentInputs :
          setComments(e, sid, value)
    \/ \E e \in DOMAIN ed, sid \in 1..MaxSections : saveComment(e, sid)

SpecFeedback == InitRefine /\ [][NextFeedback]_vars

----------------------------------------------------------------------------
(* The life of a project: created by handleSubmit, generated, refined through
   the endpoint, given feedback, deleted *)

InitLifecycle ==
    /\ StoreEmpty
    /\ cfg = [CfgInit("u1") EXCEPT !.topic = <<" ", "t">>,
                                   !.sections = << <<"a">>, <<" ", "b", " ">> >>]
    /\ ed = <<>>
    /\ reqs = <<>>
    /\ doc = <<>>
    /\ toast = "none"

NextLifecycle ==
    \/ handleSubmit
    \/ \E projectError \in BOOLEAN : insertProjectReturn(projectError)
    \/ \E sectionsError \in BOOLEAN : insertSectionsReturn(sectionsError)
    \/ mountEditor("e1")
    \/ \E e \in DOMAIN ed : loadProjectSelect(e, FALSE)
    \/ \E e \in DOMAIN ed : loadSectionsSelect(e, FALSE)
    \/ \E e \in DOMAIN ed : generateAllContent(e)
    \/ \E e \in DOMAIN ed :
          generateContentReturn(e, FALSE, [s \in DOMAIN sections |-> "g"])
    \/ \E e \in DOMAIN ed : generateCompleted(e)
    \/ directRefine("u2", 1, <<"d">>, Null)
    \/ \E i \in 1..MaxRefines : refineInsert(i, TRUE, IF i = 1 THEN "x" ELSE "y")
    \/ \E i \in 1..MaxRefines : refineUpdate(i)
    \/ \E e \in DOMAIN ed : handleFeedback(e, MaxSections, "true")
    \/ \E e \in DOMAIN ed : exportDocument(e, FALSE)
    \/ \E uid \in Users, sid \in 1..MaxSections : deleteSection(uid, sid)
    \/ \E uid \in Users, pid \in 1..MaxProjects : deleteProject(uid, pid)

SpecLifecycle == InitLifecycle /\ [][NextLifecycle]_vars

----------------------------------------------------------------------------
(* The Editor alone over a project as handleSubmit leaves it: generation,
   refinement and export through its buttons *)

InitPipeline ==
    /\ projects = (1 :> ProjectRow("u1", "docx", <<"t">>, "draft"))
    /\ sections = [s \in 1..MaxSections |->
                      SectionRow(1, s - 1, EditorTitles[((s - 1) % 2) + 1])]
    /\ refinement_history = <<>>
    /\ feedback = <<>>
    /\ ids = [projects |-> 1, sections |-> MaxSections]
    /\ cfg = CfgInit("u1")
    /\ ed = [e \in {"e1"} |-> EdInit("u1", 1)]
    /\ reqs = <<>>
    /\ doc = [e \in {"e1"} |-> NoDoc]
    /\ toast = "none"

NextPipeline ==
    \/ \E e \in DOMAIN ed : loadProjectSelect(e, FALSE)
    \/ \E e \in DOMAIN ed : loadSectionsSelect(e, FALSE)
    \/ \E e \in DOMAIN ed : generateAllContent(e)
    \/ \E e \in DOMAIN ed, error \in BOOLEAN :
          generateContentReturn(e, error, [s \in DOMAIN sections |-> "g"])
    \/ \E e \in DOMAIN ed : generateCompleted(e)
    \/ \E e \in DOMAIN ed : generateFailed(e)
    \/ \E e \in DOMAIN ed, sid \in 1..MaxSections :
          setRefinementPrompts(e, sid, <<"p">>)
    \/ \E e \in DOMAIN ed, sid \in 1..MaxSections : refineSection(e, sid)
    \/ \E i \in 1..MaxRefines, ok \in BOOLEAN : refineInsert(i, ok, "x")
    \/ \E i \in 1..MaxRefines : refineUpdate(i)
    \/ \E i \in 1..MaxRefines : refineSectionReturn(i)
    \/ \E e \in DOMAIN ed, throws \in BOOLEAN : exportDocument(e, throws)

SpecPipeline == InitPipeline /\ [][NextPipeline]_vars

----------------------------------------------------------------------------
(* Export over a stored project: keys are random, so any key may hold any
   order position; a section's content is null until something writes it *)

KeyPositions(n) ==
    {f \in [1..n -> 0..(n - 1)] : \A j, k \in 1..n : f[j] = f[k] => j = k}

InitExport ==
    /\ \E documentType \in DocumentTypes :
          projects = (1 :> ProjectRow("u1", documentType, <<"t">>, "completed"))
    /\ \E n \in 0..MaxExportSections :
       \E position \in KeyPositions(n),
          title \in [1..n -> {<<"a">>, <<"b">>, <<"c">>}],
          content \in [1..n -> {Null, "g"}] :
          /\ sections = [s \in 1..n |->
                            [SectionRow(1, position[s], title[s])
                                EXCEPT !.content = content[s],
                                       !.is_generated = content[s] # Null]]
          /\ ids = [projects |-> 1, sections |-> n]
    /\ refinement_history = <<>>
    /\ feedback = <<>>
    /\ cfg = CfgInit("u1")
    /\ ed = [e \in {"e1"} |-> EdInit("u1", 1)]
    /\ reqs = <<>>
    /\ doc = [e \in {"e1"} |-> NoDoc]
    /\ toast = "none"

NextExport ==
    \/ \E e \in DOMAIN ed, projectError \in BOOLEAN :
          loadProjectSelect(e, projectError)
    \/ \E e \in DOMAIN ed, sectionsError \in BOOLEAN :
          loadSectionsSelect(e, sectionsError)
    \/ \E e \in DOMAIN ed, throws \in BOOLEAN : exportDocument(e, throws)

SpecExport == InitExport /\ [][NextExport]_vars

----------------------------------------------------------------------------
(* Statements about generateAllContent (specification Spec) *)

\* C1: when the generate-content invoke has failed, the step that ends
\* generateAllContent leaves the project's stored status at 'draft'.
C1_FailedGenerationRollsBack ==
    [][\A e \in DOMAIN ed :
          (ed[e].gen = "catch" /\ ed'[e].gen = "idle")
              => projects'[ed[e].id].status = "draft"]_vars

\* C1, its case: a generateAllContent has just ended in its catch block while
\* the other tab's call is still in flight, and the status reads 'draft'.
C1_Witness ==
    /\ toast = "Failed to generate content"
    /\ projects[1].status = "draft"
    /\ \E e \in DOMAIN ed : ed[e].gen = "idle" /\ ~ed[e].generating
    /\ \E e \in DOMAIN ed : ed[e].gen # "idle"

\* C2 as claimed: the only changes of a project's stored status are
\* draft->generating, generating->completed and generating->draft.
C2_OnlyLifecycleTransitions ==
    [][\A p \in DOMAIN projects :
          projects'[p].status # projects[p].status
              => <<projects[p].status, projects'[p].status>> \in
                    {<<"draft", "generating">>, <<"generating", "completed">>,
                     <<"generating", "draft">>}]_vars

\* C9: whenever generateAllContent sets the status to 'completed', every
\* section its request listed has non-null content and its generated flag set.
C9_CompletedMeansGenerated ==
    [][\A e \in DOMAIN ed :
          (ed[e].gen = "ok" /\ ed'[e].gen = "idle"
                /\ projects'[ed[e].id].status = "completed")
              => \A k \in 1..Len(ed[e].genSections) :
                    LET s == ed[e].genSections[k] IN
                    /\ s \in DOMAIN sections'
                    /\ sections'[s].content # Null
                    /\ sections'[s].is_generated]_vars

\* C9, its case: a generateAllContent over all the sections has just set
\* 'completed'.
C9_Witness ==
    /\ toast = "Content generated successfully!"
    /\ projects[1].status = "completed"
    /\ \A s \in DOMAIN sections : sections[s].is_generated
    /\ Cardinality(DOMAIN sections) >= 2

\* C13: bulk generation, run once or repeatedly, never adds, removes or
\* reorders sections and never adds an audit row: a step of the editor's
\* generation changes of the sections only content and generated flag.
C13_GenerationKeepsSections ==
    [][/\ DOMAIN sections' = DOMAIN sections
       /\ \A s \in DOMAIN sections :
             /\ sections'[s].project_id = sections[s].project_id
             /\ sections'[s].order_index = sections[s].order_index
             /\ sections'[s].title = sections[s].title
       /\ refinement_history' = refinement_history]_vars

\* C13, its case: a tab shows a generated section with the content of one
\* run while the store already holds the content a later run wrote over it.
C13_Witness ==
    /\ \E e \in DOMAIN ed : \E k \in 1..Len(ed[e].sections) :
          /\ ed[e].sections[k].is_generated
          /\ sections[ed[e].sections[k].id].content # ed[e].sections[k].content
    /\ Cardinality(DOMAIN sections) = MaxSections
    /\ refinement_history = <<>>

----------------------------------------------------------------------------
(* Statements about refinement (specification SpecRefine) *)

\* the audit rows of a section, in insertion order
HistoryOf(sid) ==
    LET IsFor(row) == row.section_id = sid IN SelectSeq(refinement_history, IsFor)

\* C3 as claimed: every call of the function that returns success has
\* appended exactly one audit row for its section and leaves the section's
\* content equal to the refined content it returns.
C3_SuccessMeansRowAndContent ==
    [][\A i \in 1..Len(reqs) :
          /\ (reqs[i].stage = "sent" /\ reqs'[i].stage = "inserted")
                => /\ Len(refinement_history') = Len(refinement_history) + 1
                   /\ refinement_history'[Len(refinement_history')].section_id =
                         reqs[i].sectionId
          /\ (reqs[i].stage = "inserted" /\ reqs'[i].stage = "success")
                => /\ reqs[i].sectionId \in DOMAIN sections'
                   /\ sections'[reqs[i].sectionId].content = reqs[i].refined]_vars

\* two calls for one stored section, with different prompts, the second
\* sent after the first was answered, both answered with success, and no
\* other call for that section
TwoCallsInTurn(i, j) ==
    /\ i < j
    /\ reqs[i].sectionId = reqs[j].sectionId
    /\ reqs[i].sectionId \in DOMAIN sections
    /\ reqs[i].prompt # reqs[j].prompt
    /\ reqs[j].sequential
    /\ reqs[i].stage = "success" /\ reqs[j].stage = "success"
    /\ \A k \in 1..Len(reqs) :
          reqs[k].sectionId = reqs[i].sectionId => k \in {i, j}

\* C4: after two refine calls on one section with different prompts, the
\* second sent after the first, the stored content is the second call's
\* result and the section has exactly two audit rows, in call order.
C4_SecondCallWins ==
    \A i, j \in 1..Len(reqs) :
        TwoCallsInTurn(i, j)
            => /\ sections[reqs[j].sectionId].content = reqs[j].refined
               /\ LET rows == HistoryOf(reqs[j].sectionId) IN
                  /\ Len(rows) = 2
                  /\ rows[1].prompt = reqs[i].prompt
                  /\ rows[1].new_content = reqs[i].refined
                  /\ rows[2].prompt = reqs[j].prompt
                  /\ rows[2].new_content = reqs[j].refined

\* C4, its case: two such calls made from the editor, with different results.
C4_Witness ==
    \E i, j \in 1..Len(reqs) :
        /\ TwoCallsInTurn(i, j)
        /\ reqs[i].editor = "e1" /\ reqs[j].editor = "e1"
        /\ reqs[i].refined # reqs[j].refined
        /\ sections[reqs[j].sectionId].content = reqs[j].refined

\* C25 as claimed: when two calls on one stored section overlap (the second
\* was sent before the first was answered) and both have finished with
\* success, the section's stored content is the new_content of the audit row
\* appended last for that section, whatever the order of their inserts and
\* updates.
C25_OverlapContentIsLastRow ==
    \A i, j \in 1..Len(reqs) :
        /\ i < j
        /\ reqs[i].sectionId = reqs[j].sectionId
        /\ reqs[i].sectionId \in DOMAIN sections
        /\ ~reqs[j].sequential
        /\ reqs[i].stage = "success" /\ reqs[j].stage = "success"
        /\ \A k \in 1..Len(reqs) :
              reqs[k].sectionId = reqs[i].sectionId => k \in {i, j}
        => LET rows == HistoryOf(reqs[i].sectionId) IN
           /\ rows # <<>>
           /\ sections[reqs[i].sectionId].content = rows[Len(rows)].new_content

\* C27 as claimed: the function answers {success: true, content} only if
\* the audit row insert and the content update were both persisted.
C27_SuccessOnlyIfPersisted ==
    \A i \in 1..Len(reqs) :
        reqs[i].stage = "success" => reqs[i].inserted /\ reqs[i].updated

\* the calls editor e awaits for section sid
InFlight(e, sid) ==
    {i \in 1..Len(reqs) :
        reqs[i].editor = e /\ reqs[i].sectionId = sid /\ ~reqs[i].delivered}

\* C29 as claimed: within one editor, while a refinement of section S is in
\* flight the Refine button of S is disabled (refining = S), and at most one
\* refinement per section is in flight, also when a refinement of another
\* section is started or finishes in the meantime.
C29_OneRefinementPerSection ==
    \A e \in DOMAIN ed, sid \in 1..MaxSections :
        /\ InFlight(e, sid) # {} => ed[e].refining = sid
        /\ Cardinality(InFlight(e, sid)) <= 1

\* C30 as claimed: the step that ends a successful refinement of section S
\* in an editor clears the prompt of S and leaves the prompt of every other
\* section as it was just before, text typed while the call was in flight
\* included; the step that ends a failed refinement and the rejection of a
\* blank prompt change no prompt.
C30_OnlyOwnPromptCleared ==
    [][/\ \A i \in 1..Len(reqs) :
             ~reqs[i].delivered /\ reqs'[i].delivered =>
                LET e == reqs[i].editor
                    S == reqs[i].sectionId
                IN  IF reqs[i].stage = "success"
                        THEN /\ ed'[e].refinementPrompts[S] = <<>>
                             /\ \A s \in 1..MaxSections \ {S} :
                                   ed'[e].refinementPrompts[s] =
                                       ed[e].refinementPrompts[s]
                        ELSE ed'[e].refinementPrompts = ed[e].refinementPrompts
       /\ toast' = "Please enter a refinement prompt" =>
             \A e \in DOMAIN ed :
                 ed'[e].refinementPrompts = ed[e].refinementPrompts]_vars

\* C5 as claimed: a section's content and its audit log change only through
\* actions of the owner of the section's project: every request that has
\* written was made by that owner.
C5_OnlyOwnerWrites ==
    \A i \in 1..Len(reqs) :
        (reqs[i].inserted \/ reqs[i].updated)
            => OwnsSection(reqs[i].caller, reqs[i].sectionId)

\* C10 as claimed: the audit row of a refinement issued by the editor holds,
\* as previous_content, the section's stored content at the moment the
\* refinement overwrites it (stated for the runs in which the editor alone
\* calls the function).
C10_PreviousIsStoredContent ==
    [][\A i \in 1..Len(reqs) :
          ((\A k \in 1..Len(reqs) : reqs[k].editor # "none")
                /\ reqs[i].stage = "inserted"
                /\ reqs'[i].stage = "success" /\ reqs'[i].updated)
              => AuditRow(reqs[i], reqs[i].refined).previous_content =
                    sections[reqs[i].sectionId].content]_vars

\* C15: a call of the function that ends with status 500 has written
\* nothing: the audit log and the sections are as before the call.
C15_FailedCallWritesNothing ==
    [][\A i \in 1..Len(reqs) :
          (reqs[i].stage = "sent" /\ reqs'[i].stage = "error")
              => /\ refinement_history' = refinement_history
                 /\ sections' = sections]_vars

\* C15, its case: the editor has been answered with a failure for a stored
\* section after an earlier call for it succeeded.
C15_Witness ==
    /\ toast = "Failed to refine section"
    /\ \E i, j \in 1..Len(reqs) :
          /\ i < j
          /\ reqs[i].stage = "success" /\ reqs[j].stage = "error"
          /\ reqs[i].sectionId = reqs[j].sectionId
          /\ reqs[j].editor = "e1"
          /\ Len(HistoryOf(reqs[j].sectionId)) = 1

----------------------------------------------------------------------------
(* Statements about handleSubmit (specification SpecConfigure) *)

\* C6 as claimed: when handleSubmit fails, no project row and no section row
\* of that attempt is in the store.
C6_FailedSubmitLeavesNothing ==
    [][(cfg.pc \in {"insertProject", "insertSections"} /\ cfg'.pc = "idle")
          => /\ cfg.project \notin DOMAIN projects'
             /\ \A s \in DOMAIN sections' :
                   sections'[s].project_id # cfg.project]_vars

\* C8: the sections handleSubmit creates have the order positions 0..n-1,
\* n the length of the title list as submitted, and the section at position
\* i carries the trimmed i-th title of that list.
C8_PositionsAndTitles ==
    [][(cfg.pc = "insertSections" /\ cfg'.pc = "navigated")
          => LET titles == cfg.sub.sections
                 rows == {s \in DOMAIN sections' :
                             sections'[s].project_id = cfg.project}
             IN  /\ Cardinality(rows) = Len(titles)
                 /\ {sections'[s].order_index : s \in rows} =
                        0..(Len(titles) - 1)
                 /\ \A s \in rows :
                       sections'[s].title =
                           Trim(titles[sections'[s].order_index + 1])]_vars

\* C8, its case: a project just created from a list of two titles, after a
\* remove, one of them typed with blanks around it.
C8_Witness ==
    /\ toast = "Project created successfully!"
    /\ Cardinality(SectionsOf(cfg.project)) = 2
    /\ \E s, t \in SectionsOf(cfg.project) :
          /\ sections[s].order_index = 0 /\ sections[s].title = <<"b">>
          /\ sections[t].order_index = 1 /\ sections[t].title = <<"a">>

\* C14: a validation failure is caught before any network call: a project
\* insert is sent, and the store written, only for a form with a non-blank
\* topic, no blank title and a signed-in user; an outline request is sent
\* only for a non-blank topic; a validation notification comes with no
\* other change.
C14_ValidationBeforeNetwork ==
    [][/\ (cfg.pc = "idle" /\ cfg'.pc = "insertProject")
             => /\ Trim(cfg.topic) # <<>>
                /\ \A k \in 1..Len(cfg.sections) : Trim(cfg.sections[k]) # <<>>
                /\ cfg.user # NoUser
       /\ storeVars' # storeVars
             => /\ Trim(cfg.sub.topic) # <<>>
                /\ \A k \in 1..Len(cfg.sub.sections) :
                       Trim(cfg.sub.sections[k]) # <<>>
                /\ cfg.sub.user # NoUser
       /\ (~cfg.generating /\ cfg'.generating) => Trim(cfg.topic) # <<>>
       /\ toast' \in {"Please fill in all fields", "Please enter a topic first",
                      "You must be logged in to create a project"}
             => /\ UNCHANGED storeVars
                /\ cfg' = cfg]_vars

\* C14, its case: handleSubmit has just refused a filled-in form for want of
\* a user, after refusing nothing else, and the store is empty.
C14_Witness ==
    /\ toast = "You must be logged in to create a project"
    /\ cfg.user = NoUser
    /\ Trim(cfg.topic) # <<>>
    /\ Len(cfg.sections) = 2
    /\ StoreEmpty

----------------------------------------------------------------------------
(* Statements about exportDocument (specification SpecExport) *)

\* the place of a stored section in order-position order, from 1
Rank(s) ==
    1 + Cardinality({t \in SectionsOf(sections[s].project_id) :
                        sections[t].order_index < sections[s].order_index})

\* the document holds the topic once, as its only HEADING_1, and each stored
\* section once, title then body, in order-position order
DocxHolds(d, pid) ==
    /\ Len(d.children) = 1 + 2 * Cardinality(SectionsOf(pid))
    /\ \A k \in 1..Len(d.children) :
          d.children[k].heading = "HEADING_1"
              <=> (k = 1 /\ d.children[k].text = projects[pid].topic)
    /\ \A s \in SectionsOf(pid) :
          /\ d.children[2 * Rank(s)] =
                HeadingParagraph(sections[s].title, "HEADING_2")
          /\ d.children[2 * Rank(s) + 1].heading = "NONE"
          /\ d.children[2 * Rank(s) + 1].run =
                (IF sections[s].content = Null THEN "" ELSE sections[s].content)

\* the deck holds one title slide with the topic, then one slide for each
\* stored section, title then body, in order-position order
PptxHolds(d, pid) ==
    /\ Len(d.slides) = 1 + Cardinality(SectionsOf(pid))
    /\ Len(d.slides[1]) = 1 /\ d.slides[1][1].text = projects[pid].topic
    /\ \A s \in SectionsOf(pid) :
          /\ Len(d.slides[1 + Rank(s)]) = 2
          /\ d.slides[1 + Rank(s)][1].text = sections[s].title
          /\ d.slides[1 + Rank(s)][2].run =
                (IF sections[s].content = Null THEN "" ELSE sections[s].content)

\* C7: for both document kinds the export holds the topic once and every
\* section's title and content once, in increasing order position; a section
\* with null content has an empty body and is not left out.
C7_ExportHoldsEverySectionOnce ==
    \A e \in DOMAIN ed :
        /\ doc[e].kind = "docx" => DocxHolds(doc[e], ed[e].id)
        /\ doc[e].kind = "pptx" => PptxHolds(doc[e], ed[e].id)

\* C16 as claimed: a loaded project with the three sections a, b, c, all
\* without content, can be exported: the editor offers the export.
C16_EmptyProjectExports ==
    \A e \in DOMAIN ed :
        (/\ ~ed[e].loading
         /\ ed[e].project # NoProject
         /\ [k \in 1..Len(ed[e].sections) |-> ed[e].sections[k].title] =
               << <<"a">>, <<"b">>, <<"c">> >>
         /\ \A k \in 1..Len(ed[e].sections) : ed[e].sections[k].content = Null)
            => ExportOffered(e)

\* C7, its case: an export of sections whose keys are not in order-position
\* order, one of them with null content.
C7_Witness ==
    \E e \in DOMAIN ed :
        /\ doc[e].kind \in {"docx", "pptx"}
        /\ \E s, t \in SectionsOf(ed[e].id) :
              /\ s < t /\ sections[s].order_index > sections[t].order_index
              /\ sections[s].content = Null /\ sections[t].content # Null

----------------------------------------------------------------------------
(* Statements about the store over the life of a project (specification
   SpecLifecycle) *)

\* the rows of the audit log h that belong to section sid, in insertion order
HistoryIn(h, sid) ==
    LET IsFor(row) == row.section_id = sid IN SelectSeq(h, IsFor)

\* C12: the audit log is append-only: over every step, the audit rows of a
\* section that is still stored are the rows it had, unchanged and in the
\* same order, followed by the rows the step appended; rows go away only
\* with their section.
C12_AuditLogAppendOnly ==
    [][\A sid \in DOMAIN sections \cap DOMAIN sections' :
          LET old == HistoryIn(refinement_history, sid)
              new == HistoryIn(refinement_history', sid)
          IN  /\ Len(old) <= Len(new)
              /\ SubSeq(new, 1, Len(old)) = old]_vars

\* C12, its case: a section has two audit rows, while the rows of no other
\* section are left and the other section has been deleted.
C12_Witness ==
    /\ \E sid \in DOMAIN sections :
          LET rows == HistoryIn(refinement_history, sid) IN
          Len(rows) = 2 /\ rows[1] # rows[2]
    /\ Cardinality(DOMAIN sections) = 1
    /\ ids.sections = 2

\* order positions are unique within a project
UniquePositions ==
    \A s, t \in DOMAIN sections :
        (sections[s].project_id = sections[t].project_id
            /\ sections[s].order_index = sections[t].order_index) => s = t

\* C17: order positions are unique within a project in every reachable
\* state, and no step (creation, generation, refinement, feedback, deletion
\* of another section) changes the order position of a section that stays.
C17_PositionsUniqueAndFixed ==
    [][/\ UniquePositions /\ UniquePositions'
       /\ \A s \in DOMAIN sections \cap DOMAIN sections' :
             sections'[s].order_index = sections[s].order_index]_vars

\* C17, its case: the section at position 0 has been deleted, the section
\* that stays has generated and then refined content, feedback, and still
\* position 1.
C17_Witness ==
    /\ DOMAIN sections = {2}
    /\ sections[2].order_index = 1
    /\ sections[2].is_generated
    /\ Len(feedback) = 1
    /\ \E i \in 1..Len(reqs) : reqs[i].updated

\* C18: every section refers to a stored project, every audit row and every
\* feedback row to a stored section, in every reachable state (also after a
\* project or a section has been deleted).
C18_ReferentialIntegrity ==
    /\ \A s \in DOMAIN sections : sections[s].project_id \in DOMAIN projects
    /\ \A k \in 1..Len(refinement_history) :
          refinement_history[k].section_id \in DOMAIN sections
    /\ \A k \in 1..Len(feedback) : feedback[k].section_id \in DOMAIN sections

\* C18, its case: the project has been deleted after an audit row had been
\* written for one of its sections, and nothing of it is left.
C18_Witness ==
    /\ ids.projects = 1 /\ ids.sections = 2
    /\ DOMAIN projects = {} /\ DOMAIN sections = {}
    /\ refinement_history = <<>> /\ feedback = <<>>
    /\ \E i \in 1..Len(reqs) : reqs[i].inserted /\ reqs[i].updated

----------------------------------------------------------------------------
(* Statements about the end of generateAllContent (specification Spec) *)

\* C26: the stored status is 'generating' only while a generateAllContent
\* call for the project is in flight.  In every state in which no tab has
\* a call in flight, whatever calls have run before and however they
\* overlapped, the status of the project is 'draft' or 'completed'.
C26_GeneratingOnlyInFlight ==
    (\A e \in Editors : ed[e].gen = "idle")
        => \A p \in DOMAIN projects : projects[p].status \in {"draft", "completed"}

\* both tabs are the owner's, all calls are over, one call has generated the
\* sections and the call that ended last has failed
C26_Witness ==
    /\ \A e \in Editors : ed[e].gen = "idle" /\ ed[e].user = "u1"
    /\ toast = "Failed to generate content"
    /\ \A s \in DOMAIN sections : sections[s].is_generated
    /\ projects[1].status = "draft"

\* C24: generation is resumable after failure.  After the step that ends a
\* failed generateAllContent call, the tab's generating flag is false and
\* the Generate Content button is rendered and enabled, so that a further
\* call can be started.
C24_ResumableAfterFailure ==
    [][\A e \in Editors :
          ed[e].gen = "catch" /\ ed'[e].gen = "idle"
              => /\ ~ed'[e].generating
                 /\ ed'[e].project # NoProject
                 /\ GenerateOffered(e)']_vars

----------------------------------------------------------------------------
(* Statements about generateOutline (specification SpecConfigure) *)

\* a step of generateOutline: the click (with a blank topic or not) or the
\* end of the call
OutlineStep ==
    \/ ~cfg.generating /\ cfg'.generating
    \/ toast' \in {"Please enter a topic first", "Outline generated successfully!",
                   "Failed to generate outline"}

\* C21: generateOutline has no persistence side effect.  No step of
\* generateOutline changes the data store; the step that ends a successful
\* call replaces the local title list with an outline the function can return
\* and changes nothing else but the busy flag; the step that ends a failed
\* call leaves the title list, the topic and the document kind unchanged.
C21_OutlineWritesNothing ==
    [][OutlineStep =>
          /\ storeVars' = storeVars
          /\ cfg'.topic = cfg.topic
          /\ cfg'.documentType = cfg.documentType
          /\ toast' = "Outline generated successfully!" =>
                /\ cfg'.sections \in Outlines
                /\ cfg' = [cfg EXCEPT !.sections = cfg'.sections,
                                      !.generating = FALSE]
          /\ toast' # "Outline generated successfully!" =>
                cfg'.sections = cfg.sections]_vars

\* a call has failed on a page whose title list is no outline
C21_Witness ==
    /\ toast = "Failed to generate outline"
    /\ cfg.sections \notin Outlines
    /\ ~cfg.generating

\* C28 as claimed: the title list of the Configure page is never empty,
\* whatever add, remove, update and outline steps were taken, and a project
\* handleSubmit has created has at least one section.
C28_TitleListNeverEmpty ==
    /\ Len(cfg.sections) >= 1
    /\ toast = "Project created successfully!" => SectionsOf(cfg.project) # {}

----------------------------------------------------------------------------
(* Statements about the order of the Editor's steps (specification
   SpecPipeline) *)

\* C19: through the Editor the steps come in order.  A step in which
\* refineSection sends a request sends the section's content, which is not
\* null, for a stored section that generation has filled (generated flag set,
\* content not null); a step that produces a document is taken when
\* generation has filled some section of the project.
C19_PipelineInOrder ==
    [][/\ Len(reqs') > Len(reqs) =>
             LET r == reqs'[Len(reqs')] IN
             /\ r.editor # "none"
             /\ r.currentContent # Null
             /\ r.sectionId \in DOMAIN sections
             /\ sections[r.sectionId].is_generated
             /\ sections[r.sectionId].content # Null
       /\ toast' = "Document exported successfully!" =>
             \E e \in DOMAIN ed :
                 \E s \in SectionsOf(ed[e].id) :
                     /\ sections[s].is_generated
                     /\ sections[s].content # Null]_vars

\* a request sent by refineSection has been answered with success and a
\* document has been exported afterwards
C19_Witness ==
    /\ toast = "Document exported successfully!"
    /\ \E e \in DOMAIN doc : doc[e] # NoDoc
    /\ \E i \in 1..Len(reqs) :
          /\ reqs[i].editor = "e1"
          /\ reqs[i].stage = "success"
          /\ reqs[i].updated

----------------------------------------------------------------------------
(* Statements about exportDocument among the Editor's other steps
   (specification SpecPipeline) *)

\* C23: exportDocument, whether it succeeds or fails, changes no row of
\* projects, sections, refinement_history or feedback and no state of the
\* editor: its project, sections, prompts, comments and busy flags, the
\* calls it has in flight.
C23_ExportChangesNothing ==
    [][toast' \in {"Document exported successfully!", "Failed to export document"}
          => /\ storeVars' = storeVars
             /\ ed' = ed
             /\ reqs' = reqs
             /\ cfg' = cfg]_vars

\* a document has been exported by an editor that holds a typed prompt
\* and has a refinement in flight
C23_Witness ==
    /\ toast = "Document exported successfully!"
    /\ \E e \in DOMAIN ed :
          /\ doc[e] # NoDoc
          /\ ed[e].refining # NoSection
          /\ \E s \in 1..MaxSections : ed[e].refinementPrompts[s] # <<>>

----------------------------------------------------------------------------
(* Statements about the writes of refine-content (specification
   SpecLifecycle) *)

\* C22: a refinement of section S changes only S's content and adds audit
\* rows for S only.  In every step of the function for a request on S (the
\* audit insert, the content update, the failure) projects and feedback rows
\* are unchanged, the same sections are stored, every section but S is
\* unchanged, S differs at most in its content, and the audit log is
\* unchanged or extended by one row for S.
C22_RefinementChangesOnlyContent ==
    [][\A i \in 1..Len(reqs) :
          reqs'[i].stage # reqs[i].stage =>
             LET S == reqs[i].sectionId IN
             /\ projects' = projects
             /\ feedback' = feedback
             /\ DOMAIN sections' = DOMAIN sections
             /\ \A s \in DOMAIN sections :
                   IF s = S
                       THEN sections'[s] =
                               [sections[s] EXCEPT !.content = sections'[s].content]
                       ELSE sections'[s] = sections[s]
             /\ \/ refinement_history' = refinement_history
                \/ /\ Len(refinement_history') = Len(refinement_history) + 1
                   /\ SubSeq(refinement_history', 1, Len(refinement_history))
                         = refinement_history
                   /\ refinement_history'[Len(refinement_history')].section_id = S
        ]_vars

\* a refinement of a section has been written while another section holds
\* generated content, a feedback row is stored and the project is completed
C22_Witness ==
    /\ \E i \in 1..Len(reqs) :
          /\ reqs[i].stage = "success"
          /\ reqs[i].updated
          /\ reqs[i].sectionId \in DOMAIN sections
          /\ sections[reqs[i].sectionId].content = reqs[i].refined
          /\ \E s \in DOMAIN sections :
                s # reqs[i].sectionId /\ sections[s].content = "g"
    /\ Len(feedback) >= 1
    /\ \E p \in DOMAIN projects : projects[p].status = "completed"

----------------------------------------------------------------------------
(* Statements about feedback (specification SpecFeedback) *)

\* the feedback rows of a section, in insertion order
FeedbackOf(sid) ==
    LET IsFor(row) == row.section_id = sid IN SelectSeq(feedback, IsFor)

\* C11 as claimed: after any sequence of handleFeedback and saveComment calls
\* the feedback table holds at most one row for a section.
C11_OneFeedbackRowPerSection ==
    \A sid \in DOMAIN sections : Len(FeedbackOf(sid)) <= 1

====
